---- MODULE Spec2Model ----
(***************************************************************************)
(* auto-pr-bot: the request-intake / async-dispatch bridge of              *)
(* Handler.Handle, the per-request progress records of status.Tracker,     *)
(* the sliding-window rate limiter of ratelimit.Limiter and the            *)
(* modification pipeline of Handler.processRepository.                     *)
(*                                                                         *)
(* One DynamoDB table holds both the progress records (key: the request's  *)
(* uuid) and the rate-limit records (key: rl#<ip>#<unix second>).  Strings *)
(* that the code builds with fmt.Sprintf are modelled as tuples of their   *)
(* parts.  Time is the unix second `now`.                                  *)
(***************************************************************************)
EXTENDS Integers, Sequences, FiniteSets, Bags, TLC

\* ------------------------------------------------------------------ bounds
\* request identifiers minted in the full system and by the polling client
MaxReq == 1
\* request identifiers minted in the rate-limiter specification
MaxRLReq == 6
\* clock advances of the full system / of the rate-limiter specification
MaxTicks == 2
MaxRLTicks == 5
\* requests of a second client address in the rate-limiter specification
MaxRLOther == 1
\* store calls (PutItem, Query) that fail in one behaviour
MaxFaults == 1
\* requests submitted in the behaviours with several pipeline runs
MaxRuns == 2
\* seconds that pass while two runs overlap
MaxPairTicks == 1

\* longest generated file body, in characters
MaxLen == 4

\* invocations of Handle from API Gateway that run at the same time
MaxConc == 2

\* ------------------------------------------------------- program constants
MaxRequestsPerHour == 5
HourInSeconds == 3600
RateLimitGrace == 300
StatusRetention == 172800
StepCompleted == 9

\* the request identifiers uuid.New() can return
Ids == 1..(IF MaxReq > MaxRLReq THEN MaxReq ELSE MaxRLReq)

\* ------------------------------------------------------------------ inputs
\* A repository URL is the list of path segments strings.Split leaves once
\* ParseRepoURL has trimmed the scheme and host: <<>> is the empty string.
UrlEmpty == <<>>
UrlNoOwner == <<"widgets">>
UrlGood == <<"acme", "widgets">>

NoBody == [json |-> FALSE, repositoryUrl |-> UrlEmpty, modificationPrompt |-> "",
           githubUsername |-> "", requestId |-> 0]

GoodBody(user) == [json |-> TRUE, repositoryUrl |-> UrlGood,
                   modificationPrompt |-> "prompt", githubUsername |-> user,
                   requestId |-> 0]

\* request bodies a client may send: malformed JSON, a missing field, a URL
\* that ParseRepoURL cannot split, and well-formed requests
Bodies ==
    { NoBody,
      [GoodBody("") EXCEPT !.repositoryUrl = UrlEmpty],
      [GoodBody("") EXCEPT !.modificationPrompt = ""],
      [GoodBody("") EXCEPT !.repositoryUrl = UrlNoOwner],
      GoodBody(""),
      GoodBody("bob") }

RLBodies == { [GoodBody("") EXCEPT !.modificationPrompt = ""], GoodBody("") }

\* RequestContext.Identity.SourceIP as API Gateway reports it
SourceIPs == {"", "10.0.0.1"}

\* RequestContext.RequestID: API Gateway always sets one
GatewayRequestID == "apigw"

\* ------------------------------------------------------------------- state
VARIABLES
    now,        \* time.Now().Unix()
    ticks,      \* clock advances so far (bounded)
    table,      \* the DynamoDB table: key -> item
    nextId,     \* identifiers minted so far
    sync,       \* externally-triggered invocations of Handle in flight, by slot
    trace,      \* per external invocation: the external calls it has issued
    queue,      \* events handed to lambda.Invoke(Event) and not yet delivered
    dispatched, \* per request identifier: number of accepted Invoke calls
    run,        \* internally-triggered invocations of Handle (pipeline runs)
    hist,       \* per request identifier: tracker writes issued, in order
    lastOk,     \* per request identifier: did the last tracker PutItem succeed
    calls,      \* per run: external calls issued by the pipeline
    obs,        \* per request identifier: what the last status read returned
    github,     \* the version-control host: fork, pull requests, branches
    workspace,  \* /tmp/<login>-<repo>: 0 if absent, else the run that cloned it
    rlWrites,   \* rate-limit records ever stored, as (ip, second) pairs
    accepted,   \* bag of (ip, second) of the requests answered 202
    faults,     \* store calls that have failed so far (bounded)
    file,       \* one generated file body on its way to the workspace and back
    api         \* one model-service call: attempts made, pauses taken, result

vars == <<now, ticks, table, nextId, sync, trace, queue, dispatched, run, hist, lastOk,
          calls, obs, github, workspace, rlWrites, accepted, faults, file, api>>

\* the invocations of Handle from API Gateway that can run at the same time
Slots == DOMAIN sync

\* the parts looked at on their own: the write stage and the retry loop
unitVars == <<file, api>>

\* everything else
mainVars == <<now, ticks, table, nextId, sync, trace, queue, dispatched, run, hist,
              lastOk, calls, obs, github, workspace, rlWrites, accepted, faults>>

syncVars == <<nextId, sync, trace, queue, dispatched, rlWrites, accepted>>
pipeVars == <<run, calls, github, workspace>>

\* --------------------------------------------------------------- the table
\* uuid.New().String(): the n-th identifier minted
Uuid(n) == <<"uuid", n>>

\* variant: the rate-limit record is stored under the request identifier
RateLimitKeyIsRequestId(ipAddress, ts) == <<"uuid", 1>>

\* fmt.Sprintf("rl#%s#%d", ipAddress, now)
RateLimitKey(ipAddress, ts) == <<"rl", ipAddress, ts>>

\* variant: a conditional put that keeps an item already stored under the key
PutItemIfAbsent(tbl, key, item, ok) ==
    IF ok /\ key \notin DOMAIN tbl
    THEN [k \in DOMAIN tbl \cup {key} |-> IF k = key THEN item ELSE tbl[k]]
    ELSE tbl

\* dynamodb PutItem: the item replaces whatever the key held; a failed call
\* leaves the table as it was
PutItem(tbl, key, item, ok) ==
    IF ok THEN [k \in DOMAIN tbl \cup {key} |-> IF k = key THEN item ELSE tbl[k]]
    ELSE tbl

\* dynamodb GetItem: the set of items found, empty when the key is absent
GetItem(tbl, key) == IF key \in DOMAIN tbl THEN {tbl[key]} ELSE {}

\* the IpAddressIndex secondary index: only items that carry ipAddress and
\* timestamp attributes are projected into it
IpAddressIndex(tbl) == { k \in DOMAIN tbl : "ipAddress" \in DOMAIN tbl[k] }

\* variant: the query forgets the lower bound on the timestamp
QueryByIpAllTime(tbl, ipAddress, oneHourAgo) ==
    { k \in IpAddressIndex(tbl) : tbl[k].ipAddress = ipAddress }

\* dynamodb Query on IpAddressIndex: ipAddress = :ip AND timestamp >= :oneHourAgo
QueryByIp(tbl, ipAddress, oneHourAgo) ==
    { k \in IpAddressIndex(tbl) :
        /\ tbl[k].ipAddress = ipAddress
        /\ tbl[k].timestamp >= oneHourAgo }

Min(S) == CHOOSE x \in S : \A y \in S : x <= y

\* ------------------------------------------------------------ rate limiter
NoResult == [err |-> FALSE, allowed |-> TRUE, used |-> 0, limit |-> 0, next |-> 0, at |-> 0]

\* variant: a failed query counts as a denial
CheckRateLimitFailClosed(tbl, ipAddress, t, ok) ==
    [err |-> FALSE, allowed |-> FALSE, used |-> MaxRequestsPerHour,
     limit |-> MaxRequestsPerHour, next |-> t + HourInSeconds, at |-> t]

\* Limiter.CheckRateLimit
CheckRateLimit(tbl, ipAddress, t, ok) ==
    IF ~ok THEN [NoResult EXCEPT !.err = TRUE, !.at = t]
    ELSE LET items == QueryByIp(tbl, ipAddress, t - HourInSeconds)
             requestCount == Cardinality(items)
             isAllowed == requestCount < MaxRequestsPerHour
             oldestTimestamp == Min({t} \cup { tbl[k].timestamp : k \in items })
         IN  [err |-> FALSE,
              allowed |-> isAllowed,
              used |-> requestCount,
              limit |-> MaxRequestsPerHour,
              next |-> IF ~isAllowed /\ requestCount > 0
                       THEN oldestTimestamp + HourInSeconds ELSE 0,
              at |-> t]

\* Limiter.RecordRequest: the item it puts
RateLimitRecord(ipAddress, t) ==
    [requestId |-> RateLimitKey(ipAddress, t),
     ipAddress |-> ipAddress,
     timestamp |-> t,
     expiresAt |-> t + HourInSeconds + RateLimitGrace]

\* ----------------------------------------------------------------- tracker
Terminal == {"completed", "rejected", "error"}

StatusRecord(id, status, message, step, t, prUrl, errorDetails, repository) ==
    [requestId |-> id, status |-> status, message |-> message, step |-> step,
     timestamp |-> t, prUrl |-> prUrl, errorDetails |-> errorDetails,
     repository |-> repository, expiresAt |-> t + StatusRetention]

\* variant: Update counts the steps down from the last one
TrackerUpdateReversed(id, status, message, step, repository, t) ==
    StatusRecord(id, status, message, StepCompleted - step, t, "", "", repository)

\* Tracker.Update
TrackerUpdate(id, status, message, step, repository, t) ==
    StatusRecord(id, status, message, step, t, "", "", repository)

\* Tracker.Complete
TrackerComplete(id, prUrl, repository, t) ==
    StatusRecord(id, "completed", "Pull request created successfully",
                 StepCompleted, t, prUrl, "", repository)

\* Tracker.Reject: Step is left at its zero value
TrackerReject(id, reason, repository, t) ==
    StatusRecord(id, "rejected", "Request rejected: prompt needs improvement",
                 0, t, "", reason, repository)

\* Tracker.Error: Step is left at its zero value
TrackerError(id, errorMsg, repository, t) ==
    StatusRecord(id, "error", "An error occurred during processing",
                 0, t, "", errorMsg, repository)

\* a store call answers or fails; failures are counted up to MaxFaults
StoreOutcomes == IF faults < MaxFaults THEN BOOLEAN ELSE {TRUE}
Fault(ok) == faults' = IF ok THEN faults ELSE faults + 1

\* one tracker write of request identifier n: the PutItem, and the history
TrackerWrite(n, item, ok) ==
    /\ Fault(ok)
    /\ table' = PutItem(table, Uuid(n), item, ok)
    /\ hist' = [hist EXCEPT ![n] = Append(@, item.status)]
    /\ lastOk' = [lastOk EXCEPT ![n] = ok]


\* ------------------------------------------------------------------ intake
\* Request.Validate
Validate(r) ==
    IF r.repositoryUrl = UrlEmpty THEN "repositoryUrl is required"
    ELSE IF r.modificationPrompt = "" THEN "modificationPrompt is required"
    ELSE "ok"

\* variant: Handle forgets to call Validate
IntakeSkipsValidate(body) == IF ~body.json THEN "Invalid JSON" ELSE "ok"

\* Handle, lines 68-76: json.Unmarshal, then Validate
Intake(body) == IF ~body.json THEN "Invalid JSON" ELSE Validate(body)

\* Handle, line 83: a non-empty RequestContext.RequestID marks a synchronous
\* call from API Gateway
IsSynchronous(event) == event.ctxId # ""

\* Handle, lines 87-90
ClientAddress(event) == IF event.srcIP = "" THEN "unknown" ELSE event.srcIP

\* variant: the dispatched event keeps the gateway's request context
AsyncEventWithContext(payload) == [body |-> payload, ctxId |-> GatewayRequestID, srcIP |-> ""]

\* invokeAsync, lines 205-209: the event handed to lambda.Invoke
AsyncEvent(payload) == [body |-> payload, ctxId |-> "", srcIP |-> ""]

NoEvent == [body |-> NoBody, ctxId |-> "", srcIP |-> ""]
NoResp == [code |-> 0]
IdleSync == [pc |-> "idle", event |-> NoEvent, ip |-> "", rl |-> NoResult,
             requestID |-> 0, recAt |-> 0, resp |-> NoResp]

\* errorResponse
ErrorResponse(code, message) == [code |-> code, error |-> message]

\* rateLimitErrorResponse
RateLimitErrorResponse(rl) ==
    [code |-> 429, error |-> "Rate limit exceeded", limit |-> rl.limit,
     used |-> rl.used, resetAt |-> rl.next]

\* the 202 response of Handle, lines 146-156
AcceptedResponse(repository, id) ==
    [code |-> 202, status |-> "processing", repository |-> repository, requestId |-> id]

\* the invocation returns resp
Finish(i, resp) == [IdleSync EXCEPT !.pc = "done", !.resp = resp,
                                    !.event = sync[i].event,
                                    !.requestID = sync[i].requestID]

\* invocations that may still mint an identifier
Minting == { j \in Slots : sync[j].pc \in {"check", "record"} }

\* API Gateway invokes Handle with the next external request; Handle parses
\* and validates it (lines 66-91).  The invocation takes the lowest free slot.
HandleIntake(i, bodies, max) ==
    /\ nextId + Cardinality(Minting) < max
    /\ sync[i].pc \in {"idle", "done"}
    /\ \A j \in Slots : j < i => sync[j].pc \notin {"idle", "done"}
    /\ trace' = [trace EXCEPT ![i] = <<>>]
    /\ \E body \in bodies, srcIP \in SourceIPs :
         LET event == [body |-> body, ctxId |-> GatewayRequestID, srcIP |-> srcIP]
             verdict == Intake(body)
         IN  sync' = [sync EXCEPT ![i] =
                 IF verdict # "ok"
                 THEN [IdleSync EXCEPT !.pc = "done", !.resp = ErrorResponse(400, verdict)]
                 ELSE IF IsSynchronous(event)
                 THEN [IdleSync EXCEPT !.pc = "check", !.event = event,
                                       !.ip = ClientAddress(event)]
                 ELSE [IdleSync EXCEPT !.pc = "done", !.event = event]]
    /\ UNCHANGED <<now, ticks, table, nextId, queue, dispatched, rlWrites, accepted,
                   hist, lastOk, faults, obs>>
    /\ UNCHANGED pipeVars
    /\ UNCHANGED unitVars

\* Handle, lines 93-101: the rate-limit check; a failed query is logged and
\* the request goes on
HandleCheckRateLimit(i, oks) ==
    /\ sync[i].pc = "check"
    /\ \E ok \in oks \cap StoreOutcomes :
         LET rl == CheckRateLimit(table, sync[i].ip, now, ok)
         IN  /\ Fault(ok)
             /\ sync' = [sync EXCEPT ![i] =
                   IF ~rl.err /\ ~rl.allowed
                   THEN [@ EXCEPT !.pc = "done", !.rl = rl,
                                  !.resp = RateLimitErrorResponse(rl)]
                   ELSE [@ EXCEPT !.pc = "record", !.rl = rl]]
    /\ trace' = [trace EXCEPT ![i] = Append(@, "CheckRateLimit")]
    /\ UNCHANGED <<now, ticks, table, nextId, queue, dispatched, rlWrites,
                   accepted, hist, lastOk, obs>>
    /\ UNCHANGED pipeVars
    /\ UNCHANGED unitVars

\* Handle, lines 103-110: mint the request identifier, then
\* Limiter.RecordRequest; a failed PutItem is logged and swallowed
HandleRecordRequest(i, oks) ==
    /\ sync[i].pc = "record"
    /\ \E ok \in oks \cap StoreOutcomes :
         /\ table' = PutItem(table, RateLimitKey(sync[i].ip, now),
                             RateLimitRecord(sync[i].ip, now), ok)
         /\ rlWrites' = IF ok THEN rlWrites \cup {<<sync[i].ip, now>>} ELSE rlWrites
         /\ Fault(ok)
    /\ nextId' = nextId + 1
    /\ sync' = [sync EXCEPT ![i] = [@ EXCEPT !.pc = "status", !.requestID = nextId + 1,
                                             !.recAt = now]]
    /\ trace' = [trace EXCEPT ![i] = @ \o <<"uuid.New", "RecordRequest">>]
    /\ UNCHANGED <<now, ticks, queue, dispatched, accepted, hist, lastOk, obs>>
    /\ UNCHANGED pipeVars
    /\ UNCHANGED unitVars

\* variant: Handle dispatches without writing the initial progress record
HandleInitialStatusSkipped(i, oks) ==
    /\ sync[i].pc = "status"
    /\ oks # {}
    /\ sync' = [sync EXCEPT ![i] = [@ EXCEPT !.pc = "dispatch"]]
    /\ UNCHANGED <<now, ticks, table, hist, lastOk, faults, nextId, trace, queue,
                   dispatched, rlWrites, accepted, obs>>
    /\ UNCHANGED pipeVars
    /\ UNCHANGED unitVars

\* Handle, lines 112-115: the initial progress record
HandleInitialStatus(i, oks) ==
    /\ sync[i].pc = "status"
    /\ \E ok \in oks \cap StoreOutcomes :
         TrackerWrite(sync[i].requestID,
                      TrackerUpdate(Uuid(sync[i].requestID), "pending",
                                    "Request received, starting processing...", 0,
                                    sync[i].event.body.repositoryUrl, now), ok)
    /\ sync' = [sync EXCEPT ![i] = [@ EXCEPT !.pc = "dispatch"]]
    /\ trace' = [trace EXCEPT ![i] = Append(@, "Update")]
    /\ UNCHANGED <<now, ticks, nextId, queue, dispatched, rlWrites, accepted, obs>>
    /\ UNCHANGED pipeVars
    /\ UNCHANGED unitVars

\* Handle, lines 117-157, with invokeAsync: "ok" is an accepted Invoke,
\* "capacity" an Invoke error naming the concurrency limit, "failed" any
\* other failure of invokeAsync
HandleInvokeAsync(i, outcomes) ==
    /\ sync[i].pc = "dispatch"
    /\ LET id == sync[i].requestID
           body == sync[i].event.body
           payload == [body EXCEPT !.requestId = id]
       IN  \E outcome \in outcomes :
             /\ trace' = [trace EXCEPT ![i] = Append(@, "Invoke")]
             /\ IF outcome = "ok"
                THEN /\ queue' = queue \cup {AsyncEvent(payload)}
                     /\ dispatched' = [dispatched EXCEPT ![id] = @ + 1]
                     /\ accepted' = accepted (+) SetToBag({<<sync[i].ip, sync[i].recAt>>})
                     /\ sync' = [sync EXCEPT ![i] =
                                   Finish(i, AcceptedResponse(body.repositoryUrl, id))]
                     /\ UNCHANGED <<table, hist, lastOk, faults>>
                ELSE IF outcome = "capacity"
                THEN /\ sync' = [sync EXCEPT ![i] = Finish(i, ErrorResponse(503, "at capacity"))]
                     /\ UNCHANGED <<queue, dispatched, accepted, table, hist, lastOk, faults>>
                ELSE /\ \E ok \in StoreOutcomes :
                          TrackerWrite(id, TrackerError(Uuid(id), "Failed to start async processing",
                                                        body.repositoryUrl, now), ok)
                     /\ sync' = [sync EXCEPT ![i] = Finish(i, ErrorResponse(500, "Failed to start processing"))]
                     /\ UNCHANGED <<queue, dispatched, accepted>>
    /\ UNCHANGED <<now, ticks, nextId, rlWrites, obs>>
    /\ UNCHANGED pipeVars
    /\ UNCHANGED unitVars

\* ---------------------------------------------------------------- pipeline
\* files of the target repository, and paths the model may name
RepoFiles == {"README.md"}
Paths == {"README.md", "CONTRIBUTING.md"}

\* client.GetDefaultBranch of the target repository
DefaultBranch == <<"main">>

\* fmt.Sprintf("auto-pr-bot/%d", time.Now().Unix())
BranchName(t) == <<"auto-pr-bot", t>>

\* pr.GetHTMLURL()
PrUrl(num) == <<"pull", num>>

\* An error value: the stage that failed, the text it carries, and whether
\* the text of the underlying failure happens to contain the words
\* "prompt validation failed"
NoErr == [kind |-> "none", detail |-> "", marker |-> FALSE]
Err(kind, detail, marker) == [kind |-> kind, detail |-> detail, marker |-> marker]

\* fmt.Errorf("prompt validation failed: %s", reason)
ValidationErr(reason) == Err("prompt validation failed", reason, FALSE)

\* variant: every error is taken for a validation rejection
AlwaysValidationRejection(err) == TRUE

\* variant: no error is taken for a validation rejection
NeverValidationRejection(err) == FALSE

\* strings.Contains(err.Error(), "prompt validation failed")
IsValidationRejection(err) == err.kind = "prompt validation failed" \/ err.marker

\* github.ParseRepoURL
ParseRepoURL(parts) ==
    IF Len(parts) < 2 THEN [ok |-> FALSE, owner |-> "", repo |-> ""]
    ELSE [ok |-> TRUE, owner |-> parts[1], repo |-> parts[2]]

\* isValid, reason, err of openai.ValidatePrompt
NoVerdict == [called |-> FALSE, isValid |-> FALSE, reason |-> "", err |-> FALSE]
Verdict(isValid, reason, err) ==
    [called |-> TRUE, isValid |-> isValid, reason |-> reason, err |-> err]

\* variant: the verdict is never acted upon
RejectsNever(v) == FALSE

\* processRepository, lines 245-248: the run is rejected only on an answer
\* that says the prompt is not valid
Rejects(v) == ~v.err /\ ~v.isValid

\* What makeAPICall hands to ValidatePrompt: an error (ok is FALSE), or the
\* content of the answer, which is a JSON object or not, and as an object
\* carries the fields isValid and reason or leaves them out.
Reply(ok, json, hasIsValid, isValid, hasReason, reason) ==
    [ok |-> ok, json |-> json, hasIsValid |-> hasIsValid, isValid |-> isValid,
     hasReason |-> hasReason, reason |-> reason]
NoReply == Reply(FALSE, FALSE, FALSE, FALSE, FALSE, "")

\* ValidatePrompt, lines 303-314: a failed call and a content that
\* json.Unmarshal refuses are errors; a field the object leaves out keeps
\* the zero value of PromptValidationResponse
ParseValidation(reply) ==
    IF ~reply.ok \/ ~reply.json THEN Verdict(FALSE, "", TRUE)
    ELSE Verdict(IF reply.hasIsValid THEN reply.isValid ELSE FALSE,
                 IF reply.hasReason THEN reply.reason ELSE "", FALSE)

IdleRun == [pc |-> "none", id |-> 0, req |-> NoBody, err |-> NoErr, result |-> "",
            verdict |-> NoVerdict,
            cloned |-> FALSE, branch |-> 0, read |-> {}, modify |-> {},
            modified |-> {}, dirty |-> FALSE, hasChanges |-> TRUE, listErr |-> FALSE,
            pr |-> 0]

\* variant: the deferred clean-up leaves the clone path in place
CleanupSkipped(cloned) == workspace

\* processRepository, line 278: the clone path under /tmp is named after the
\* bot's login and the repository name
Directory(req) == <<"auto-pr-bot", ParseRepoURL(req.repositoryUrl).repo>>

\* processRepository returns: the deferred git.Cleanup removes the clone path
\* if the clone had succeeded
Return(n, err, result) == [run[n] EXCEPT !.pc = "ret", !.err = err, !.result = result]
Cleanup(cloned) == IF cloned THEN 0 ELSE workspace

\* variant: the listing is not filtered by head branch
ListOpenPullRequestsAnyHead(gh, branch) == { p \in gh.prs : p.open }

\* client.ListOpenPullRequests: open pull requests whose head is login:branch
ListOpenPullRequests(gh, branch) == { p \in gh.prs : p.open /\ p.head = branch }

\* The platform delivers a dispatched event: Handle, lines 66-83 and 159-175.
\* The identifier travels in the payload.
HandleAsyncStart(e) ==
    /\ e \in queue
    /\ queue' = queue \ {e}
    /\ LET n == e.body.requestId
       IN  /\ run[n].pc = "none"
           /\ run' = [run EXCEPT ![n] =
                 IF Intake(e.body) # "ok" THEN [IdleRun EXCEPT !.pc = "done", !.id = n]
                 ELSE IF IsSynchronous(e) THEN [IdleRun EXCEPT !.pc = "sync", !.id = n]
                 ELSE [IdleRun EXCEPT !.pc = "validating", !.id = n, !.req = e.body]]
    /\ UNCHANGED <<now, ticks, table, hist, lastOk, faults, obs, nextId, sync, trace,
                   dispatched, rlWrites, accepted, calls, github, workspace>>
    /\ UNCHANGED unitVars

\* processRepository, lines 233-242: parse the URL, write Validating
StageValidating(n) ==
    /\ run[n].pc = "validating"
    /\ IF ParseRepoURL(run[n].req.repositoryUrl).ok
       THEN /\ \E ok \in StoreOutcomes :
                 TrackerWrite(n, TrackerUpdate(Uuid(n), "validating",
                                  "Validating modification request...", 0,
                                  run[n].req.repositoryUrl, now), ok)
            /\ run' = [run EXCEPT ![n] = [@ EXCEPT !.pc = "validate"]]
       ELSE /\ run' = [run EXCEPT ![n] = Return(n, Err("invalid repository URL", "", FALSE), "")]
            /\ UNCHANGED <<table, hist, lastOk, faults>>
    /\ UNCHANGED <<now, ticks, obs, calls, github, workspace>>
    /\ UNCHANGED syncVars
    /\ UNCHANGED unitVars

\* processRepository, lines 244-254: the validator's verdict
Reasons == {"too vague"}

\* what the validator may answer: the call fails, the content is no JSON, the
\* prompt is valid, it is not and the model says why, or the object says
\* nothing at all
ValidationReplies ==
    {NoReply,
     Reply(TRUE, FALSE, FALSE, FALSE, FALSE, ""),
     Reply(TRUE, TRUE, TRUE, TRUE, TRUE, "ok"),
     Reply(TRUE, TRUE, FALSE, FALSE, FALSE, "")}
        \cup { Reply(TRUE, TRUE, TRUE, FALSE, TRUE, reason) : reason \in Reasons }

Verdicts == { ParseValidation(reply) : reply \in ValidationReplies }

ValidatePrompt(n) ==
    /\ run[n].pc = "validate"
    /\ calls' = [calls EXCEPT ![n] = @ \cup {"ValidatePrompt"}]
    /\ \E reply \in ValidationReplies :
         LET v == ParseValidation(reply)
         IN  IF Rejects(v)
             THEN /\ \E ok \in StoreOutcomes :
                       TrackerWrite(n, TrackerReject(Uuid(n), v.reason,
                                                     run[n].req.repositoryUrl, now), ok)
                  /\ run' = [run EXCEPT ![n] =
                               [Return(n, ValidationErr(v.reason), "") EXCEPT !.verdict = v]]
             ELSE /\ run' = [run EXCEPT ![n] = [@ EXCEPT !.pc = "forking", !.verdict = v]]
                  /\ UNCHANGED <<table, hist, lastOk, faults>>
    /\ UNCHANGED <<now, ticks, obs, github, workspace>>
    /\ UNCHANGED syncVars
    /\ UNCHANGED unitVars

\* variant: the fork is created without looking for an existing one
ForkRepositoryAlwaysCreates(gh, outcome) ==
    IF outcome \in {"user failed", "lookup failed", "create failed"}
    THEN [ok |-> FALSE, gh |-> gh, calls |-> {"CreateFork"}]
    ELSE [ok |-> TRUE, gh |-> [gh EXCEPT !.forkExists = TRUE], calls |-> {"CreateFork"}]

\* client.ForkRepository: look the fork up, create it only on a 404
ForkRepository(gh, outcome) ==
    IF outcome \in {"user failed", "lookup failed"}
    THEN [ok |-> FALSE, gh |-> gh, calls |-> {"GetRepository"}]
    ELSE IF gh.forkExists
    THEN [ok |-> TRUE, gh |-> gh, calls |-> {"GetRepository"}]
    ELSE IF outcome = "create failed"
    THEN [ok |-> FALSE, gh |-> gh, calls |-> {"GetRepository", "CreateFork"}]
    ELSE [ok |-> TRUE, gh |-> [gh EXCEPT !.forkExists = TRUE],
          calls |-> {"GetRepository", "CreateFork"}]

\* processRepository, lines 256-272: write Forking, fork, get the bot's login
StageForking(n) ==
    /\ run[n].pc = "forking"
    /\ \E ok \in StoreOutcomes :
         TrackerWrite(n, TrackerUpdate(Uuid(n), "forking", "Forking repository...", 1,
                                       run[n].req.repositoryUrl, now), ok)
    /\ \E outcome \in {"ok", "lookup failed", "create failed"}, userOk \in BOOLEAN,
          marker \in BOOLEAN :
         LET f == ForkRepository(github, outcome)
         IN  /\ github' = f.gh
             /\ calls' = [calls EXCEPT ![n] = @ \cup f.calls \cup {"ForkRepository"}]
             /\ run' = [run EXCEPT ![n] =
                   IF ~f.ok THEN Return(n, Err("fork failed", outcome, marker), "")
                   ELSE IF ~userOk THEN Return(n, Err("failed to get user info", "", marker), "")
                   ELSE [@ EXCEPT !.pc = "cloning"]]
    /\ UNCHANGED <<now, ticks, obs, workspace>>
    /\ UNCHANGED syncVars
    /\ UNCHANGED unitVars

\* processRepository, lines 274-327: write Cloning, clone into /tmp, reset to
\* upstream, create the timestamped branch, list the files
StageCloning(n) ==
    /\ run[n].pc = "cloning"
    /\ \E ok \in StoreOutcomes :
         TrackerWrite(n, TrackerUpdate(Uuid(n), "cloning", "Cloning forked repository...", 2,
                                       run[n].req.repositoryUrl, now), ok)
    /\ calls' = [calls EXCEPT ![n] = @ \cup {"CloneRepository"}]
    /\ \E outcome \in {"ok", "clone failed", "failed to get default branch",
                       "failed to reset to upstream", "failed to create branch",
                       "failed to list files"}, marker \in BOOLEAN :
         IF outcome = "clone failed"
         THEN /\ run' = [run EXCEPT ![n] = Return(n, Err(outcome, "", marker), "")]
              \* os.RemoveAll(clonePath) has run before git clone failed
              /\ workspace' = 0
         ELSE IF outcome # "ok"
         THEN /\ run' = [run EXCEPT ![n] = Return(n, Err(outcome, "", marker), "")]
              /\ workspace' = Cleanup(TRUE)
         ELSE /\ run' = [run EXCEPT ![n] = [@ EXCEPT !.pc = "analyzing", !.cloned = TRUE,
                                                     !.branch = now]]
              /\ workspace' = n
    /\ UNCHANGED <<now, ticks, obs, github>>
    /\ UNCHANGED syncVars
    /\ UNCHANGED unitVars

\* processRepository, lines 329-365: write Analyzing, ask which files to read,
\* read them (a file that cannot be read is skipped), ask which to modify
StageAnalyzing(n) ==
    /\ run[n].pc = "analyzing"
    /\ \E ok \in StoreOutcomes :
         TrackerWrite(n, TrackerUpdate(Uuid(n), "analyzing", "Analyzing repository with AI...", 3,
                                       run[n].req.repositoryUrl, now), ok)
    /\ calls' = [calls EXCEPT ![n] = @ \cup {"AnalyzeRepositoryForFiles"}]
    /\ \E outcome \in {"ok", "failed to analyze repository with OpenAI",
                       "failed to determine files to modify"},
          filesToRead \in SUBSET Paths, filesToModify \in SUBSET Paths, marker \in BOOLEAN :
         LET fileContents == filesToRead \cap RepoFiles
         IN  IF outcome = "failed to analyze repository with OpenAI"
             THEN /\ filesToRead = {} /\ filesToModify = {}
                  /\ run' = [run EXCEPT ![n] = Return(n, Err(outcome, "", marker), "")]
             ELSE IF fileContents = {}
             THEN /\ filesToModify = {} /\ outcome = "ok" /\ ~marker
                  /\ run' = [run EXCEPT ![n] = Return(n, Err("no files could be read", "", FALSE), "")]
             ELSE IF outcome = "failed to determine files to modify"
             THEN /\ filesToModify = {}
                  /\ run' = [run EXCEPT ![n] = Return(n, Err(outcome, "", marker), "")]
             ELSE /\ ~marker
                  /\ run' = [run EXCEPT ![n] = [@ EXCEPT !.pc = "modifying",
                                  !.read = fileContents, !.modify = filesToModify]]
    /\ workspace' = IF run'[n].pc = "ret" THEN Cleanup(run[n].cloned) ELSE workspace
    /\ UNCHANGED <<now, ticks, obs, github>>
    /\ UNCHANGED syncVars
    /\ UNCHANGED unitVars

\* variant: a body is kept for any path, named by the plan or not
FileChangeSetsAnyPath(modify, read) == SUBSET Paths

\* processRepository, lines 371-393: the File Change Sets the generate loop
\* can end with. A planned file gets a body if it was read, or can be read
\* now, and its generation succeeds; any of these may fail for any file.
FileChangeSets(modify, read) ==
    SUBSET { f \in modify : f \in read \/ f \in RepoFiles }

\* processRepository, lines 367-409: write Modifying, generate a body for each
\* file to modify (reading it first if it was not read; a file that cannot be
\* read or generated is skipped), write the bodies to the workspace
StageModifying(n) ==
    /\ run[n].pc = "modifying"
    /\ \E ok \in StoreOutcomes :
         TrackerWrite(n, TrackerUpdate(Uuid(n), "modifying",
                                       "Generating code modifications with AI...", 4,
                                       run[n].req.repositoryUrl, now), ok)
    /\ LET readable == { f \in run[n].modify : f \in run[n].read \/ f \in RepoFiles }
       IN  /\ calls' = [calls EXCEPT ![n] = @ \cup (IF readable # {}
                                                    THEN {"GenerateModifiedFile"} ELSE {})]
           /\ \E modifiedFiles \in FileChangeSets(run[n].modify, run[n].read),
                 writeOk \in BOOLEAN, differs \in BOOLEAN,
              marker \in BOOLEAN :
             IF modifiedFiles = {}
             THEN /\ writeOk /\ ~differs /\ ~marker
                  /\ run' = [run EXCEPT ![n] = Return(n, Err("no files could be modified", "", FALSE), "")]
             ELSE IF ~writeOk
             THEN /\ ~differs
                  /\ run' = [run EXCEPT ![n] = Return(n, Err("failed to write file", "", marker), "")]
             ELSE /\ ~marker
                  /\ run' = [run EXCEPT ![n] = [@ EXCEPT !.pc = "committing",
                                  !.modified = modifiedFiles, !.dirty = differs]]
    /\ workspace' = IF run'[n].pc = "ret" THEN Cleanup(run[n].cloned) ELSE workspace
    /\ UNCHANGED <<now, ticks, obs, github>>
    /\ UNCHANGED syncVars
    /\ UNCHANGED unitVars

\* variant: a clean tree is committed as an empty commit and pushed
CommitAndPushAllowEmpty(gh, branch, dirty, pushOk) ==
    IF ~pushOk THEN [err |-> "git push failed", gh |-> gh, calls |-> {"git push"}]
    ELSE [err |-> "", gh |-> [gh EXCEPT !.branches = @ \cup {branch}],
          calls |-> {"git push"}]

\* git.CommitAndPush: a clean tree is the error "no changes to commit"; the
\* remote rejects the push of a fresh branch under a name it already has
CommitAndPush(gh, branch, dirty, pushOk) ==
    IF ~dirty THEN [err |-> "no changes to commit", gh |-> gh, calls |-> {}]
    ELSE IF ~pushOk \/ branch \in gh.branches
    THEN [err |-> "git push failed", gh |-> gh, calls |-> {"git push"}]
    ELSE [err |-> "", gh |-> [gh EXCEPT !.branches = @ \cup {branch}],
          calls |-> {"git push"}]

\* processRepository, lines 456-477: close every listed pull request and
\* delete its head branch unless that is the default branch
CloseExisting(gh, existing, closeOk) ==
    [gh EXCEPT
       !.prs = { IF p \in existing /\ closeOk THEN [p EXCEPT !.open = FALSE] ELSE p : p \in @ },
       !.branches = @ \ { p.head : p \in { q \in existing : q.head # DefaultBranch } }]

\* processRepository, lines 411-481: write Committing, commit and push, then
\* reconcile with the open pull requests from the fork's default branch
StageCommitting(n) ==
    /\ run[n].pc = "committing"
    /\ \E ok \in StoreOutcomes :
         TrackerWrite(n, TrackerUpdate(Uuid(n), "committing",
                                       "Committing and pushing changes...", 5,
                                       run[n].req.repositoryUrl, now), ok)
    /\ \E pushOk \in BOOLEAN, listOk \in BOOLEAN, closeOk \in BOOLEAN, marker \in BOOLEAN :
         LET c == CommitAndPush(github, BranchName(run[n].branch), run[n].dirty, pushOk)
             hasChanges == c.err # "no changes to commit"
             existingPRs == ListOpenPullRequests(c.gh, DefaultBranch)
         IN  IF c.err \notin {"", "no changes to commit"}
             THEN /\ listOk /\ closeOk
                  /\ run' = [run EXCEPT ![n] = Return(n, Err("failed to commit and push", c.err, marker), "")]
                  /\ github' = c.gh
                  /\ calls' = [calls EXCEPT ![n] = @ \cup c.calls]
             ELSE /\ ~marker
                  /\ (c.err = "no changes to commit") => pushOk
                  /\ calls' = [calls EXCEPT ![n] = @ \cup c.calls \cup {"ListOpenPullRequests"}
                                 \cup (IF listOk /\ existingPRs # {} /\ hasChanges
                                       THEN {"ClosePullRequest"} ELSE {})]
                  /\ IF ~listOk
                     THEN /\ closeOk
                          /\ github' = c.gh
                          /\ run' = [run EXCEPT ![n] = [@ EXCEPT !.pc = "creating_pr",
                                          !.hasChanges = hasChanges, !.listErr = TRUE]]
                     ELSE IF existingPRs # {}
                     THEN IF ~hasChanges
                          THEN /\ closeOk
                               /\ github' = c.gh
                               /\ run' = [run EXCEPT ![n] =
                                     [Return(n, NoErr, "existing") EXCEPT
                                        !.hasChanges = FALSE,
                                        !.pr = (CHOOSE q \in existingPRs : TRUE).num]]
                          ELSE /\ github' = CloseExisting(c.gh, existingPRs, closeOk)
                               /\ run' = [run EXCEPT ![n] = [@ EXCEPT !.pc = "creating_pr"]]
                     ELSE /\ closeOk
                          /\ github' = c.gh
                          /\ run' = [run EXCEPT ![n] =
                                IF ~hasChanges
                                THEN Return(n, Err("no changes to commit and no existing PR found",
                                                   "", FALSE), "")
                                ELSE [@ EXCEPT !.pc = "creating_pr"]]
    /\ workspace' = IF run'[n].pc = "ret" THEN Cleanup(run[n].cloned) ELSE workspace
    /\ UNCHANGED <<now, ticks, obs>>
    /\ UNCHANGED syncVars
    /\ UNCHANGED unitVars

\* client.CreatePullRequest: the host refuses a head branch it does not have,
\* and a head that already has an open pull request
CreatePullRequest(gh, head, createOk) ==
    IF ~createOk \/ head \notin gh.branches \/ ListOpenPullRequests(gh, head) # {}
    THEN [ok |-> FALSE, gh |-> gh, num |-> 0]
    ELSE [ok |-> TRUE, num |-> gh.nextPr,
          gh |-> [gh EXCEPT !.prs = @ \cup {[num |-> gh.nextPr, head |-> head, open |-> TRUE]},
                            !.nextPr = @ + 1]]

\* processRepository, lines 483-513: write CreatingPullRequest, create the PR
StageCreatingPR(n) ==
    /\ run[n].pc = "creating_pr"
    /\ \E ok \in StoreOutcomes :
         TrackerWrite(n, TrackerUpdate(Uuid(n), "creating_pr", "Creating pull request...", 6,
                                       run[n].req.repositoryUrl, now), ok)
    /\ calls' = [calls EXCEPT ![n] = @ \cup {"CreatePullRequest"}]
    /\ \E createOk \in BOOLEAN, marker \in BOOLEAN :
         LET c == CreatePullRequest(github, BranchName(run[n].branch), createOk)
         IN  /\ github' = c.gh
             /\ createOk => ~marker
             /\ run' = [run EXCEPT ![n] =
                   IF c.ok THEN [@ EXCEPT !.pc = "complete", !.pr = c.num]
                   ELSE Return(n, Err("failed to create pull request", "", marker), "")]
    /\ workspace' = IF run'[n].pc = "ret" THEN Cleanup(run[n].cloned) ELSE workspace
    /\ UNCHANGED <<now, ticks, obs>>
    /\ UNCHANGED syncVars
    /\ UNCHANGED unitVars

\* variant: a failed Complete write fails the run
StageCompleteSurfacesStore(n) ==
    /\ run[n].pc = "complete"
    /\ \E ok \in StoreOutcomes :
         /\ TrackerWrite(n, TrackerComplete(Uuid(n), PrUrl(run[n].pr),
                                            run[n].req.repositoryUrl, now), ok)
         /\ run' = [run EXCEPT ![n] =
                      IF ok THEN Return(n, NoErr, "created")
                      ELSE Return(n, Err("failed to update status", "", FALSE), "")]
    /\ calls' = [calls EXCEPT ![n] = @ \cup (IF run[n].req.githubUsername # ""
                                             THEN {"AddCollaborator"} ELSE {})]
    /\ workspace' = Cleanup(run[n].cloned)
    /\ UNCHANGED <<now, ticks, obs, github>>
    /\ UNCHANGED syncVars
    /\ UNCHANGED unitVars

\* processRepository, lines 515-570: write Completed, grant the collaborator
\* push access if one was named (a failure is logged), return the summary
StageComplete(n) ==
    /\ run[n].pc = "complete"
    /\ \E ok \in StoreOutcomes :
         TrackerWrite(n, TrackerComplete(Uuid(n), PrUrl(run[n].pr),
                                         run[n].req.repositoryUrl, now), ok)
    /\ calls' = [calls EXCEPT ![n] = @ \cup (IF run[n].req.githubUsername # ""
                                             THEN {"AddCollaborator"} ELSE {})]
    /\ run' = [run EXCEPT ![n] = Return(n, NoErr, "created")]
    /\ workspace' = Cleanup(run[n].cloned)
    /\ UNCHANGED <<now, ticks, obs, github>>
    /\ UNCHANGED syncVars
    /\ UNCHANGED unitVars

\* variant: a failed run is started over instead of being reported
HandleAsyncResultRetries(n) ==
    /\ run[n].pc = "ret"
    /\ run' = [run EXCEPT ![n] =
                 IF run[n].err # NoErr
                 THEN [@ EXCEPT !.pc = "validating", !.err = NoErr]
                 ELSE [@ EXCEPT !.pc = "done"]]
    /\ UNCHANGED <<now, ticks, table, hist, lastOk, faults, obs, calls, github, workspace>>
    /\ UNCHANGED syncVars
    /\ UNCHANGED unitVars

\* Handle, lines 175-187: processRepository has returned; an error that is
\* not a validation rejection is written to the progress record.  The
\* invocation ends here and its locals are gone.
HandleAsyncResult(n) ==
    /\ run[n].pc = "ret"
    /\ IF run[n].err # NoErr /\ ~IsValidationRejection(run[n].err)
       THEN \E ok \in StoreOutcomes :
              TrackerWrite(n, TrackerError(Uuid(n), run[n].err.kind,
                                           run[n].req.repositoryUrl, now), ok)
       ELSE UNCHANGED <<table, hist, lastOk, faults>>
    /\ run' = [run EXCEPT ![n] = [IdleRun EXCEPT !.pc = "done", !.id = n,
                      !.verdict = run[n].verdict,
                      !.result = IF run[n].err # NoErr THEN "failed" ELSE run[n].result]]
    /\ UNCHANGED <<now, ticks, obs, calls, github, workspace>>
    /\ UNCHANGED syncVars
    /\ UNCHANGED unitVars

\* ------------------------------------------------------------- environment
\* instants at which a stored record leaves the rate-limit window
WindowEnds == { table[k].timestamp + HourInSeconds : k \in IpAddressIndex(table) }
NextOf(S) == LET later == { b \in S : b > now }
             IN  IF later = {} THEN {} ELSE {Min(later)}

\* something was stored in this second, or a window ends in it
Eventful == \E k \in DOMAIN table : now \in {table[k].timestamp, table[k].timestamp + HourInSeconds}

\* time passes: to the next second once this one was eventful, or up to the
\* next instant at which a record leaves the rate-limit window
Tick(max, instants) ==
    /\ ticks < max
    /\ \E t \in (IF Eventful THEN {now + 1} ELSE {}) \cup NextOf(instants) : now' = t
    /\ ticks' = ticks + 1
    /\ UNCHANGED <<table, hist, lastOk, faults, obs>>
    /\ UNCHANGED syncVars
    /\ UNCHANGED pipeVars
    /\ UNCHANGED unitVars

\* someone opens a pull request from the default branch of the bot's fork
ForeignPullRequest ==
    /\ github.forkExists
    /\ \A p \in github.prs : p.head # DefaultBranch
    /\ github' = CreatePullRequest([github EXCEPT !.branches = @ \cup {DefaultBranch}],
                                   DefaultBranch, TRUE).gh
    /\ UNCHANGED <<now, ticks, table, hist, lastOk, faults, obs, run, calls, workspace>>
    /\ UNCHANGED syncVars
    /\ UNCHANGED unitVars

\* instants just after a stored item's expiry
Expiries == { table[k].expiresAt + 1 : k \in DOMAIN table }

\* the store's time-to-live sweep deletes an item some time after its expiry
Expire ==
    /\ \E k \in DOMAIN table :
         /\ table[k].expiresAt < now
         /\ table' = [j \in DOMAIN table \ {k} |-> table[j]]
    /\ UNCHANGED <<now, ticks, hist, lastOk, faults, obs>>
    /\ UNCHANGED syncVars
    /\ UNCHANGED pipeVars
    /\ UNCHANGED unitVars

\* StatusHandler.Handle: GET /status/{requestId}
\* Tracker.Get answers "request not found" for a missing item and an error
\* for a failed GetItem; the handler turns either into 404
StatusResponse(tbl, n, ok) ==
    LET found == GetItem(tbl, Uuid(n))
    IN  IF ~ok \/ found = {} THEN [code |-> 404, status |-> "", step |-> 0]
        ELSE LET item == CHOOSE x \in found : TRUE
             IN  [code |-> 200, status |-> item.status, step |-> item.step]

\* what a client has seen of one request: the last response, and the step of
\* the 200 response before it, if there was one
NoObs == [code |-> 0, status |-> "", step |-> 0, seen |-> FALSE, prev |-> 0,
          existed |-> FALSE, expired |-> FALSE]

\* a client reads the status of request n and sees something new
StatusGet(ids, oks) ==
    /\ \E n \in ids, ok \in oks \cap StoreOutcomes :
         LET r == StatusResponse(table, n, ok)
             before == obs[n].code = 200
             exists == Uuid(n) \in DOMAIN table
         IN  /\ <<r.code, r.status>> # <<obs[n].code, obs[n].status>>
             /\ Fault(ok)
             /\ obs' = [obs EXCEPT ![n] =
                   [code |-> r.code, status |-> r.status, step |-> r.step,
                    seen |-> before, prev |-> IF before THEN obs[n].step ELSE 0,
                    existed |-> exists,
                    expired |-> exists /\ table[Uuid(n)].expiresAt < now]]
    /\ UNCHANGED <<now, ticks, table, hist, lastOk>>
    /\ UNCHANGED syncVars
    /\ UNCHANGED pipeVars
    /\ UNCHANGED unitVars

\* ---------------------------------------------------------- specifications
\* no file body is under way, no model-service call is in progress
NoFile == [pc |-> "none", content |-> <<>>, written |-> <<>>, read |-> <<>>]
NoAnswer == [status |-> 0, text |-> {}]
NoCall == [pc |-> "idle", attempt |-> 0, slept |-> <<>>, answers |-> <<>>,
           result |-> [kind |-> "none", err |-> NoAnswer]]

InitSlots(failed, slots) ==
    /\ now = 1700000000
    /\ ticks = 0
    /\ table = <<>>
    /\ nextId = 0
    /\ sync = [i \in 1..slots |-> IdleSync]
    /\ trace = [i \in 1..slots |-> <<>>]
    /\ queue = {}
    /\ dispatched = [n \in Ids |-> 0]
    /\ run = [n \in Ids |-> IdleRun]
    /\ hist = [n \in Ids |-> <<>>]
    /\ lastOk = [n \in Ids |-> TRUE]
    /\ calls = [n \in Ids |-> {}]
    /\ obs = [n \in Ids |-> NoObs]
    /\ github = [forkExists |-> FALSE, prs |-> {}, nextPr |-> 1, branches |-> {}]
    /\ workspace = 0
    /\ rlWrites = {}
    /\ accepted = EmptyBag
    /\ faults = failed

\* one invocation of Handle from API Gateway at a time
InitBase(failed) == InitSlots(failed, MaxReq)

InitWith(failed) ==
    /\ InitBase(failed)
    /\ file = NoFile
    /\ api = NoCall

\* the state after construction: nothing stored, nothing running
Init == InitWith(0)

\* The rate limiter under sequential clients and working collaborators: one
\* external invocation at a time, the store and the platform answer, and time
\* passes between invocations.
OtherRequests == Cardinality({ w \in rlWrites : w[1] = "unknown" })

Quiet == \A j \in Slots : sync[j].pc \in {"idle", "done"}

SequentialIntake(i) ==
    /\ Quiet
    /\ HandleIntake(i, RLBodies, MaxRLReq)
    /\ (sync'[i].ip = "unknown") => (OtherRequests < MaxRLOther)

SequentialTick == Quiet /\ Tick(MaxRLTicks, WindowEnds)

NextRL ==
    \/ \E i \in Slots : SequentialIntake(i)
    \/ \E i \in Slots : HandleCheckRateLimit(i, {TRUE})
    \/ \E i \in Slots : HandleRecordRequest(i, {TRUE})
    \/ \E i \in Slots : HandleInitialStatus(i, {TRUE})
    \/ \E i \in Slots : HandleInvokeAsync(i, {"ok"})
    \/ SequentialTick

SpecRL == Init /\ [][NextRL]_vars

\* no invocation of Handle is in flight
Idle == Quiet /\ \A n \in Ids : run[n].pc \in {"none", "done"}

\* time passes between invocations
IdleTick == Idle /\ Tick(MaxTicks, WindowEnds)

ClientIntake(i) == Quiet /\ HandleIntake(i, Bodies, MaxReq)

\* The full system: external requests of every shape, the pipeline runs they
\* dispatch, a store, a platform and collaborators that may fail, and time.
Next ==
    \/ \E i \in Slots : ClientIntake(i)
    \/ \E i \in Slots : HandleCheckRateLimit(i, BOOLEAN)
    \/ \E i \in Slots : HandleRecordRequest(i, BOOLEAN)
    \/ \E i \in Slots : HandleInitialStatus(i, BOOLEAN)
    \/ \E i \in Slots : HandleInvokeAsync(i, {"ok", "capacity", "failed"})
    \/ \E e \in queue : HandleAsyncStart(e)
    \/ \E n \in Ids : StageValidating(n)
    \/ \E n \in Ids : ValidatePrompt(n)
    \/ \E n \in Ids : StageForking(n)
    \/ \E n \in Ids : StageCloning(n)
    \/ \E n \in Ids : StageAnalyzing(n)
    \/ \E n \in Ids : StageModifying(n)
    \/ \E n \in Ids : StageCommitting(n)
    \/ \E n \in Ids : StageCreatingPR(n)
    \/ \E n \in Ids : StageComplete(n)
    \/ \E n \in Ids : HandleAsyncResult(n)
    \/ ForeignPullRequest
    \/ IdleTick

Spec == Init /\ [][Next]_vars

\* A client that submits well-formed requests one at a time and polls the
\* status endpoint while the pipeline runs.
PollIntake(i) == Quiet /\ HandleIntake(i, {GoodBody("")}, MaxReq)

NextPoll ==
    \/ \E i \in Slots : PollIntake(i)
    \/ \E i \in Slots : HandleCheckRateLimit(i, BOOLEAN)
    \/ \E i \in Slots : HandleRecordRequest(i, BOOLEAN)
    \/ \E i \in Slots : HandleInitialStatus(i, BOOLEAN)
    \/ \E i \in Slots : HandleInvokeAsync(i, {"ok", "capacity", "failed"})
    \/ \E e \in queue : HandleAsyncStart(e)
    \/ \E n \in Ids : StageValidating(n)
    \/ \E n \in Ids : ValidatePrompt(n)
    \/ \E n \in Ids : StageForking(n)
    \/ \E n \in Ids : StageCloning(n)
    \/ \E n \in Ids : StageAnalyzing(n)
    \/ \E n \in Ids : StageModifying(n)
    \/ \E n \in Ids : StageCommitting(n)
    \/ \E n \in Ids : StageCreatingPR(n)
    \/ \E n \in Ids : StageComplete(n)
    \/ \E n \in Ids : HandleAsyncResult(n)
    \/ StatusGet(1..MaxReq, {TRUE})

SpecPoll == Init /\ [][NextPoll]_vars

\* A client reads the status of a request before it was submitted, while it
\* is processed, and long after; the store may fail, records expire and are
\* swept some time later.
ExpiryTick == Idle /\ Tick(MaxTicks, Expiries)

NextRead ==
    \/ \E i \in Slots : PollIntake(i)
    \/ \E i \in Slots : HandleCheckRateLimit(i, {TRUE})
    \/ \E i \in Slots : HandleRecordRequest(i, {TRUE})
    \/ \E i \in Slots : HandleInitialStatus(i, {TRUE})
    \/ \E i \in Slots : HandleInvokeAsync(i, {"ok"})
    \/ \E e \in queue : HandleAsyncStart(e)
    \/ \E n \in Ids : StageValidating(n)
    \/ \E n \in Ids : ValidatePrompt(n)
    \/ \E n \in Ids : StageForking(n)
    \/ \E n \in Ids : StageCloning(n)
    \/ \E n \in Ids : StageAnalyzing(n)
    \/ \E n \in Ids : StageModifying(n)
    \/ \E n \in Ids : StageCommitting(n)
    \/ \E n \in Ids : StageCreatingPR(n)
    \/ \E n \in Ids : StageComplete(n)
    \/ \E n \in Ids : HandleAsyncResult(n)
    \/ StatusGet(1..MaxReq, BOOLEAN)
    \/ ExpiryTick
    \/ Expire

SpecRead == Init /\ [][NextRead]_vars

\* Several requests for the same repository, submitted one after the other
\* while earlier runs may still be in progress; the store and the platform
\* answer, the collaborators of the pipeline may fail.
RunsIntake(i) ==
    /\ Idle
    /\ queue = {}
    /\ HandleIntake(i, {GoodBody("")}, MaxRuns)
    /\ sync'[i].ip # "unknown"

\* time passes between the submissions
RunsTick == nextId < MaxRuns /\ IdleTick

InitRuns == InitWith(MaxFaults)

NextRuns ==
    \/ \E i \in Slots : RunsIntake(i)
    \/ \E i \in Slots : HandleCheckRateLimit(i, {TRUE})
    \/ \E i \in Slots : HandleRecordRequest(i, {TRUE})
    \/ \E i \in Slots : HandleInitialStatus(i, {TRUE})
    \/ \E i \in Slots : HandleInvokeAsync(i, {"ok"})
    \/ \E e \in queue : HandleAsyncStart(e)
    \/ \E n \in Ids : StageValidating(n)
    \/ \E n \in Ids : ValidatePrompt(n)
    \/ \E n \in Ids : StageForking(n)
    \/ \E n \in Ids : StageCloning(n)
    \/ \E n \in Ids : StageAnalyzing(n)
    \/ \E n \in Ids : StageModifying(n)
    \/ \E n \in Ids : StageCommitting(n)
    \/ \E n \in Ids : StageCreatingPR(n)
    \/ \E n \in Ids : StageComplete(n)
    \/ \E n \in Ids : HandleAsyncResult(n)
    \/ ForeignPullRequest
    \/ RunsTick

SpecRuns == InitRuns /\ [][NextRuns]_vars

\* runs that are working in a checkout
Working == { n \in Ids : run[n].cloned /\ run[n].pc \notin {"ret", "done"} }

\* Two requests for the same repository whose runs overlap: the second is
\* submitted while the run of the first is working in its checkout.  The
\* store and the platform answer; time passes between the two submissions,
\* whenever no synchronous invocation is under way.
PairIntake(i) ==
    /\ Quiet
    /\ queue = {}
    /\ \A n \in Ids : run[n].pc # "none" => n \in Working
    /\ HandleIntake(i, {GoodBody("")}, MaxRuns)
    /\ sync'[i].ip # "unknown"

QuietTick == Quiet /\ nextId < MaxRuns /\ Tick(MaxPairTicks, WindowEnds)

NextPair ==
    \/ \E i \in Slots : PairIntake(i)
    \/ \E i \in Slots : HandleCheckRateLimit(i, {TRUE})
    \/ \E i \in Slots : HandleRecordRequest(i, {TRUE})
    \/ \E i \in Slots : HandleInitialStatus(i, {TRUE})
    \/ \E i \in Slots : HandleInvokeAsync(i, {"ok"})
    \/ \E e \in queue : HandleAsyncStart(e)
    \/ \E n \in Ids : StageValidating(n)
    \/ \E n \in Ids : ValidatePrompt(n)
    \/ \E n \in Ids : StageForking(n)
    \/ \E n \in Ids : StageCloning(n)
    \/ \E n \in Ids : StageAnalyzing(n)
    \/ \E n \in Ids : StageModifying(n)
    \/ \E n \in Ids : StageCommitting(n)
    \/ \E n \in Ids : StageCreatingPR(n)
    \/ \E n \in Ids : StageComplete(n)
    \/ \E n \in Ids : HandleAsyncResult(n)
    \/ QuietTick

SpecPair == InitRuns /\ [][NextPair]_vars

\* ------------------------------------------------------------------ claims
Last(h) == h[Len(h)]
Front(h) == SubSeq(h, 1, Len(h) - 1)
IsPrefix(s, t) == Len(s) <= Len(t) /\ \A k \in 1..Len(s) : s[k] = t[k]

\* the stages in their required order
Stages == <<"pending", "validating", "forking", "cloning", "analyzing", "modifying",
            "committing", "creating_pr", "completed">>

\* C1: the stages written for one request are a prefix of Pending, Validating,
\* Forking, Cloning, Analyzing, Modifying, Committing, CreatingPullRequest,
\* Completed, or a prefix that stops before Completed followed by exactly one
\* Rejected or Error: no stage is skipped and none is entered again.
StageOrder ==
    \A n \in Ids :
        \/ IsPrefix(hist[n], Stages)
        \/ /\ hist[n] # <<>>
           /\ Last(hist[n]) \in {"rejected", "error"}
           /\ Len(Front(hist[n])) < Len(Stages)
           /\ IsPrefix(Front(hist[n]), Stages)

\* a run has written every stage up to Completed
StageOrderWitness == \E n \in Ids : hist[n] = Stages

\* C2: the step a client reads for one request is never lower than the step it
\* read before, for every read that returns a stage of the sequence Pending ..
\* Completed (steps 0,0,1,2,3,4,5,6,9), that is until Rejected or Error is read.
StepNonDecreasing ==
    \A n \in Ids :
        (obs[n].code = 200 /\ obs[n].seen /\ obs[n].status \notin {"rejected", "error"})
            => obs[n].step >= obs[n].prev

\* a client that had read a lower step reads the step of Completed
StepNonDecreasingWitness ==
    \E n \in Ids : /\ obs[n].seen
                   /\ obs[n].status = "completed"
                   /\ obs[n].step = 9
                   /\ obs[n].prev < 9

\* C3: every asynchronous run that has returned, with success or with failure,
\* has written a terminal stage (Completed, Rejected or Error) as the last
\* stage of its request.
ReturnedRunIsTerminal ==
    \A n \in Ids :
        run[n].pc = "done" => (hist[n] # <<>> /\ Last(hist[n]) \in Terminal)

\* C4: a run whose validator answered "not actionable" ends in Rejected with
\* the validator's reason as detail, writes neither Forking nor a later stage,
\* and issues no fork, clone, push or pull-request call.
NotActionableIsRejected ==
    \A n \in Ids :
        (run[n].verdict.called /\ ~run[n].verdict.err /\ ~run[n].verdict.isValid) =>
            /\ hist[n] # <<>>
            /\ Last(hist[n]) = "rejected"
            /\ \A k \in 1..Len(hist[n]) :
                 hist[n][k] \notin {"forking", "cloning", "analyzing", "modifying",
                                    "committing", "creating_pr", "completed"}
            /\ calls[n] \cap {"ForkRepository", "GetRepository", "CreateFork",
                              "CloneRepository", "git push", "CreatePullRequest"} = {}
            /\ lastOk[n] => /\ Uuid(n) \in DOMAIN table
                            /\ table[Uuid(n)].status = "rejected"
                            /\ table[Uuid(n)].errorDetails = run[n].verdict.reason

\* a run that was told "not actionable" has returned and its record is stored
NotActionableWitness ==
    \E n \in Ids : /\ run[n].pc = "done"
                   /\ run[n].verdict.called
                   /\ ~run[n].verdict.err
                   /\ ~run[n].verdict.isValid
                   /\ lastOk[n]

\* C5: once the record of a request is Rejected, no step replaces or changes
\* it, and the run issues no further tracker write.
RejectedStays ==
    [][\A n \in Ids :
         /\ (Uuid(n) \in DOMAIN table /\ table[Uuid(n)].status = "rejected")
              => (Uuid(n) \in DOMAIN table' /\ table'[Uuid(n)] = table[Uuid(n)])
         /\ (hist[n] # <<>> /\ Last(hist[n]) = "rejected") => hist'[n] = hist[n]]_vars

\* the asynchronous entry point has handled the rejection's error and the
\* record is still Rejected with the reason
RejectedStaysWitness ==
    \E n \in Ids : /\ run[n].pc = "done"
                   /\ Uuid(n) \in DOMAIN table
                   /\ table[Uuid(n)].status = "rejected"
                   /\ table[Uuid(n)].errorDetails \in Reasons

RECURSIVE CopiesOf(_, _)
CopiesOf(B, S) ==
    IF S = {} THEN 0
    ELSE LET x == CHOOSE y \in S : TRUE
         IN  CopiesIn(x, B) + CopiesOf(B, S \ {x})

\* requests of the address answered 202 in the hour up to t
AcceptedInHour(ipAddress, t) ==
    CopiesOf(accepted, { e \in BagToSet(accepted) : e[1] = ipAddress /\ e[2] > t - 3600 })

\* C7: of requests submitted one after another from one address within one
\* hour, whatever their spacing, the check allows the first 5 and denies the
\* 6th: no check passes once 5 requests were accepted in the last hour.
SixthRequestDenied ==
    \A i \in Slots :
        (sync[i].pc = "record" /\ ~sync[i].rl.err)
            => AcceptedInHour(sync[i].ip, sync[i].rl.at) < 5

\* C8: an invocation that answers 202 has issued, in this order, the
\* rate-limit check, the identifier, the rate-limit record, the Pending write
\* and one dispatch of its payload tagged with the identifier; Pending is the
\* first stage of the request and the invocation runs no pipeline stage.
AcceptedOrder ==
    \A i \in Slots :
        LET id == sync[i].requestID
            payload == [sync[i].event.body EXCEPT !.requestId = id]
        IN  /\ sync[i].resp.code = 202 =>
                 /\ trace[i] = <<"CheckRateLimit", "uuid.New", "RecordRequest",
                                 "Update", "Invoke">>
                 /\ id # 0
                 /\ sync[i].resp.requestId = id
                 /\ hist[id] # <<>>
                 /\ hist[id][1] = "pending"
                 /\ dispatched[id] = 1
                 /\ run[id].pc = "none" =>
                      (AsyncEvent(payload) \in queue /\ hist[id] = <<"pending">>
                       /\ calls[id] = {})
                 /\ run[id].pc \notin {"none", "done"} => run[id].req = payload
            /\ sync[i].pc \in {"status", "dispatch"} =>
                 /\ run[id].pc = "none"
                 /\ calls[id] = {}
                 /\ IsPrefix(hist[id], <<"pending">>)

\* a 202 was answered and the dispatched run has since written its stages
AcceptedOrderWitness ==
    \E i \in Slots : /\ sync[i].resp.code = 202
                     /\ Len(hist[sync[i].requestID]) > 1
                     /\ hist[sync[i].requestID][2] = "validating"

\* C9: a request answered 202 has exactly one dispatch, whose event is taken
\* for an internal one and starts one pipeline run; a request that minted an
\* identifier and was not answered 202 has no dispatch and no run.
OnePipelinePerAccepted ==
    /\ \A n \in Ids :
         /\ dispatched[n] <= 1
         /\ Cardinality({ e \in queue : e.body.requestId = n }) <= dispatched[n]
         /\ run[n].pc # "none" => (dispatched[n] = 1 /\ run[n].pc # "sync")
    /\ \A e \in queue : ~IsSynchronous(e) /\ run[e.body.requestId].pc = "none"
    /\ \A i \in Slots :
         sync[i].requestID # 0 =>
             IF sync[i].resp.code = 202
             THEN dispatched[sync[i].requestID] = 1
             ELSE dispatched[sync[i].requestID] = 0 /\ run[sync[i].requestID].pc = "none"

\* the one run of an accepted request has run and returned
OnePipelineWitness ==
    \E n \in Ids : dispatched[n] = 1 /\ run[n].pc = "done" /\ queue = {}

\* what a refused invocation has done: 400 is answered before any external
\* call, 429 after the rate-limit query only and with limit, used and resetAt;
\* only well-formed requests get past intake
IntakeRejectionIsClean ==
    \A i \in Slots :
        /\ sync[i].resp.code = 400 => (trace[i] = <<>> /\ sync[i].requestID = 0)
        /\ sync[i].resp.code = 429 =>
             /\ trace[i] = <<"CheckRateLimit">>
             /\ sync[i].requestID = 0
             /\ sync[i].resp.limit = 5
             /\ sync[i].resp.used = sync[i].rl.used
             /\ sync[i].resp.used >= 5
             /\ sync[i].resp.resetAt = sync[i].rl.next
             /\ sync[i].resp.resetAt > 0
        /\ sync[i].pc \in {"check", "record", "status", "dispatch"} =>
             /\ sync[i].event.body.json
             /\ Validate(sync[i].event.body) = "ok"

Mutating == {"git push", "ClosePullRequest", "DeleteBranch", "CreatePullRequest"}

NoChangesNoPR == "no changes to commit and no existing PR found"

SupersededPRsClosedThenOneCreated ==
    [][\A n \in Ids :
         /\ (/\ run[n].pc = "committing"
             /\ run[n].dirty
             /\ ListOpenPullRequests(github, DefaultBranch) # {}
             /\ run'[n].pc = "creating_pr")
            => /\ BranchName(run[n].branch) \in github'.branches
               /\ \A p \in ListOpenPullRequests(github, DefaultBranch) :
                    /\ p \notin github'.prs
                    /\ [p EXCEPT !.open = FALSE] \in github'.prs
         /\ (/\ run[n].pc = "creating_pr"
             /\ run[n].hasChanges
             /\ run'[n].pc = "complete")
            => github'.prs \ github.prs =
                 {[num |-> run'[n].pr, head |-> BranchName(run[n].branch), open |-> TRUE]}]_vars

OpenFeaturePRs == { p \in github.prs : p.open /\ p.head # DefaultBranch }

\* C15: when a request is repeated after the run of the first one has opened
\* its pull request, a second run that returns successfully has taken the
\* "no changes, existing PR" branch, refers to the first run's pull request,
\* and has not opened a second one.
RepeatedRequestRefersToFirstPR ==
    \A n \in Ids :
        (/\ run[n].pc = "ret"
         /\ run[n].err = NoErr
         /\ \E m \in Ids \ {n} : run[m].pc = "done" /\ run[m].result = "created")
        => /\ run[n].result = "existing"
           /\ \E p \in OpenFeaturePRs : p.num = run[n].pr
           /\ Cardinality(OpenFeaturePRs) = 1

\* paths that do not exist in the repository
NewPaths == Paths \ RepoFiles

\* C16: a run whose only planned change is a file that does not yet exist in
\* the repository has that file generated and handed to the commit stage as a
\* change, unless the model service or the file system fails while doing so.
NewFileIsGenerated ==
    [][\A n \in Ids :
         (/\ run[n].pc = "modifying"
          /\ run[n].modify # {}
          /\ run[n].modify \subseteq NewPaths
          /\ run'[n].pc # "modifying")
         => \/ /\ run'[n].pc = "committing"
               /\ run'[n].modified = run[n].modify
               /\ run'[n].dirty
            \/ /\ run'[n].pc = "ret"
               /\ "GenerateModifiedFile" \in calls'[n]]_vars

\* one step of the invocations that work on request n
PipelineStep(n) ==
    \/ StageValidating(n)
    \/ ValidatePrompt(n)
    \/ StageForking(n)
    \/ StageCloning(n)
    \/ StageAnalyzing(n)
    \/ StageModifying(n)
    \/ StageCommitting(n)
    \/ StageCreatingPR(n)
    \/ StageComplete(n)
    \/ HandleAsyncResult(n)
    \/ \E i \in Slots : HandleInitialStatus(i, BOOLEAN)
    \/ \E i \in Slots : HandleInvokeAsync(i, {"ok", "capacity", "failed"})

\* what the caller and the collaborators see of a step
Outcome == <<run, calls, github, workspace, sync, trace, queue, dispatched, hist>>

\* C17: a step in which the tracker write fails has the same effect on the
\* run, its calls, the host, the workspace and the response under way as the
\* step in which the write succeeds, and the other way round: whatever a
\* step with a failing write does can be done with a succeeding one, and
\* whatever a step with a succeeding write does can be done with a failing
\* one.
TrackerFailureChangesNothing ==
    [][\A n \in Ids :
         (hist'[n] # hist[n]) =>
            \E o \in {Outcome'} :
               /\ (faults' > faults) =>
                     ENABLED (PipelineStep(n) /\ faults' = faults /\ Outcome' = o)
               /\ (faults' = faults /\ faults < MaxFaults) =>
                     ENABLED (PipelineStep(n) /\ faults' = faults + 1 /\ Outcome' = o)]_vars

\* a run has opened its pull request and returned although a tracker write
\* failed and the stored record never became Completed
TrackerFailureWitness ==
    \E n \in Ids :
        /\ faults > 0
        /\ run[n].pc = "done"
        /\ run[n].result = "created"
        /\ "CreatePullRequest" \in calls[n]
        /\ Uuid(n) \in DOMAIN table
        /\ table[Uuid(n)].status # "completed"

\* the rate limiter's store call of the invocation in slot i failed: its
\* query, or the write of its record
LimiterFailed(i) ==
    sync[i].rl.err \/ <<sync[i].ip, sync[i].recAt>> \notin rlWrites

\* C18: a failed rate-limit query lets the request go on to mint its
\* identifier, a failed write of the rate-limit record lets it go on to the
\* Pending write, and after either the Pending record is written and an
\* accepted dispatch is answered with 202 for that identifier.
RateLimiterFailsOpen ==
    [][\A i \in Slots :
         /\ (sync[i].pc = "check" /\ sync'[i] # sync[i] /\ faults' > faults)
            => /\ sync'[i].pc = "record"
               /\ sync'[i].rl.err
               /\ sync'[i].resp = NoResp
         /\ (sync[i].pc = "record" /\ sync'[i] # sync[i] /\ faults' > faults)
            => /\ sync'[i].pc = "status"
               /\ sync'[i].requestID = nextId'
               /\ sync'[i].requestID > nextId
               /\ sync'[i].resp = NoResp
         /\ (sync[i].pc = "status" /\ LimiterFailed(i) /\ sync'[i].pc # "status")
            => /\ sync'[i].pc = "dispatch"
               /\ hist'[sync[i].requestID] = <<"pending">>
               /\ lastOk'[sync[i].requestID] =>
                     table'[Uuid(sync[i].requestID)].status = "pending"
         /\ (sync[i].pc = "dispatch" /\ LimiterFailed(i) /\ sync'[i] # sync[i]
                                     /\ dispatched' # dispatched)
            => /\ sync'[i].pc = "done"
               /\ sync'[i].resp = AcceptedResponse(sync[i].event.body.repositoryUrl,
                                                   sync[i].requestID)
               /\ dispatched'[sync[i].requestID] = 1]_vars

\* a request whose rate-limit record could not be written was answered 202
\* and dispatched, and its progress record is stored
RateLimiterFailsOpenWitness ==
    \E i \in Slots :
        /\ sync[i].pc = "done"
        /\ sync[i].resp.code = 202
        /\ faults > 0
        /\ rlWrites = {}
        /\ dispatched[sync[i].requestID] = 1
        /\ hist[sync[i].requestID][1] = "pending"
        /\ Uuid(sync[i].requestID) \in DOMAIN table

\* C19: a run that returns an error which is not the validation rejection of
\* ValidatePrompt issues no further stage write; the handler writes Error
\* with the failure message, whatever text the underlying error carries, and
\* the run is over.
StageFailureIsWrittenAsError ==
    [][\A n \in Ids :
         (/\ run[n].pc = "ret"
          /\ run[n].err # NoErr
          /\ run[n].err.kind # "prompt validation failed"
          /\ run'[n] # run[n])
         => /\ run'[n].pc = "done"
            /\ run'[n].result = "failed"
            /\ Len(hist'[n]) = Len(hist[n]) + 1
            /\ Last(hist'[n]) = "error"
            /\ lastOk'[n] => /\ table'[Uuid(n)].status = "error"
                             /\ table'[Uuid(n)].errorDetails = run[n].err.kind]_vars

BranchNamesNeverCollide ==
    \A m, n \in Ids :
        (m # n /\ run[m].cloned /\ run[n].cloned)
        => BranchName(run[m].branch) # BranchName(run[n].branch)

\* C22: two runs that are working in a checkout at the same time use
\* different clone paths, and the checkout a run is working in is still its
\* own: no other run's clone or clean-up has replaced or removed it.
WorkspaceIsExclusive ==
    /\ \A m, n \in Working : m # n => Directory(run[m].req) # Directory(run[n].req)
    /\ \A n \in Working : workspace = n

\* C23: a status read answers 200 exactly when a record of the identifier
\* exists and has not expired, and 404 exactly when there is none or it has
\* expired.
StatusReadMatchesRecord ==
    \A n \in Ids :
        /\ obs[n].code = 200 => (obs[n].existed /\ ~obs[n].expired)
        /\ obs[n].code = 404 => (~obs[n].existed \/ obs[n].expired)

Chars == {"x", "\r", "\n"}
FileBodies == UNION { [1..k -> Chars] : k \in 0..MaxLen }

\* strings.HasSuffix(content, "\n")
HasSuffix(content) == Len(content) > 0 /\ content[Len(content)] = "\n"

\* a normalisation that appends a terminator whatever the body ends with
ensureTrailingNewlineAlways(content) == Append(content, "\n")

\* handler.go ensureTrailingNewline: the empty body is returned as it is, a
\* body that does not end with "\n" gets one appended
ensureTrailingNewline(content) ==
    IF content = <<>> THEN content
    ELSE IF ~HasSuffix(content) THEN Append(content, "\n")
    ELSE content

\* the write loop of processRepository: normalise, then git.WriteFile
WriteModifiedFile ==
    /\ file.pc = "generated"
    /\ file' = [file EXCEPT !.pc = "written",
                            !.written = ensureTrailingNewline(file.content)]
    /\ UNCHANGED <<mainVars, api>>

\* git.ReadFileContent of a file of at most 2000 lines: the bytes as stored
ReadFileContent ==
    /\ file.pc = "written"
    /\ file' = [file EXCEPT !.pc = "read", !.read = file.written]
    /\ UNCHANGED <<mainVars, api>>

\* the body read back goes through the write loop once more
WriteAgain ==
    /\ file.pc = "read"
    /\ file' = [file EXCEPT !.pc = "rewritten",
                            !.written = ensureTrailingNewline(file.read)]
    /\ UNCHANGED <<mainVars, api>>

InitWrite ==
    /\ InitBase(0)
    /\ api = NoCall
    /\ \E body \in FileBodies :
         file = [pc |-> "generated", content |-> body, written |-> <<>>, read |-> <<>>]

NextWrite ==
    \/ WriteModifiedFile
    \/ ReadFileContent
    \/ WriteAgain

SpecWrite == InitWrite /\ [][NextWrite]_vars

\* the body the statement expects on disk: unchanged if it ends with a line
\* terminator, with one appended otherwise
Terminated(content) == IF HasSuffix(content) THEN content ELSE Append(content, "\n")

maxRetries == 3

\* What one doAPICall can come back with. status is the HTTP status of the
\* response, 0 when http.Client.Do itself failed; text holds the telling words
\* of the error message (for an APIError, of the response body).
Answers ==
    {[status |-> 200, text |-> {}], [status |-> 200, text |-> {"no choices"}]}
    \cup {[status |-> c, text |-> t] : c \in {400, 404, 429, 500, 503},
                                       t \in {{}, {"timeout"}}}
    \cup {[status |-> 0, text |-> {w}] : w \in {"timeout", "connection", "network", "EOF"}}

\* doAPICall returns a nil error: status 200 and at least one choice
Succeeded(a) == a.status = 200 /\ "no choices" \notin a.text

\* doAPICall returns an *APIError: the response status is not 200
IsAPIError(a) == a.status \notin {0, 200}

\* a classification under which every error is tried again
isRetryableErrorAlways(a) == TRUE

\* client.go isRetryableError: an APIError by its status alone, any other
\* error by the words of its message
isRetryableError(a) ==
    IF IsAPIError(a) THEN a.status = 429 \/ a.status >= 500
    ELSE a.text \cap {"timeout", "connection", "network"} # {}

\* makeAPICall: one pass of the loop body from doAPICall on
CallAttempt ==
    /\ api.pc = "attempt"
    /\ \E a \in Answers :
         api' = IF Succeeded(a)
                  THEN [api EXCEPT !.answers = Append(@, a), !.pc = "returned",
                                   !.result = [kind |-> "ok", err |-> a]]
                ELSE IF ~isRetryableError(a)
                  THEN [api EXCEPT !.answers = Append(@, a), !.pc = "returned",
                                   !.result = [kind |-> "error", err |-> a]]
                ELSE IF api.attempt + 1 < maxRetries
                  THEN [api EXCEPT !.answers = Append(@, a), !.pc = "sleep",
                                   !.attempt = @ + 1]
                ELSE [api EXCEPT !.answers = Append(@, a), !.pc = "returned",
                                 !.attempt = @ + 1,
                                 !.result = [kind |-> "exhausted", err |-> a]]
    /\ UNCHANGED <<mainVars, file>>

\* makeAPICall: time.Sleep(1 << (attempt-1) seconds) at the head of a later pass
BackoffSleep ==
    /\ api.pc = "sleep"
    /\ api' = [api EXCEPT !.slept = Append(@, 2 ^ (api.attempt - 1)), !.pc = "attempt"]
    /\ UNCHANGED <<mainVars, file>>

makeAPICall == CallAttempt \/ BackoffSleep

\* the pipeline as before, or one model-service call followed attempt by attempt
InitCall ==
    /\ InitBase(0)
    /\ file = NoFile
    /\ api \in {NoCall, [NoCall EXCEPT !.pc = "attempt"]}

NextCall ==
    \/ api.pc = "idle" /\ Next
    \/ CallAttempt
    \/ BackoffSleep

\* the loop is not suspended for ever: the function runs until it returns
SpecCall == InitCall /\ [][NextCall]_vars /\ WF_vars(makeAPICall)

\* the classes of the statement
RetryableClass(a) == a.status = 429 \/ a.status >= 500
ClientError(a) == a.status >= 400 /\ a.status < 500 /\ a.status # 429
TransportFailure(a) ==
    a.status = 0 /\ a.text \cap {"timeout", "connection", "network"} # {}

\* the attempts that were followed by another one
Retried ==
    1..(IF api.pc \in {"sleep", "attempt"} THEN Len(api.answers) ELSE Len(api.answers) - 1)

\* at most maxRetries attempts, pauses of 1s then 2s, and the result is the
\* one of the last attempt
CallShape ==
    LET k == Len(api.answers)
    IN  /\ k <= maxRetries
        /\ IsPrefix(api.slept, <<1, 2>>)
        /\ Len(api.slept) = Cardinality(IF api.pc = "sleep" THEN Retried \ {k} ELSE Retried)
        /\ \A j \in Retried : ~Succeeded(api.answers[j]) /\ ~ClientError(api.answers[j])
        /\ api.pc = "returned" =>
             /\ k >= 1
             /\ api.result.err = api.answers[k]
             /\ Succeeded(api.answers[k]) <=> api.result.kind = "ok"
             /\ ClientError(api.answers[k]) => api.result.kind = "error"
             /\ api.result.kind = "exhausted" <=>
                    (k = maxRetries /\ ~Succeeded(api.answers[k])
                                    /\ \A j \in 1..k : ~ClientError(api.answers[j])
                                    /\ isRetryableError(api.answers[k]))
        /\ api.pc # "returned" => api.result.kind = "none"

\* the positions of a run in the order processRepository passes them
Positions == <<"validating", "validate", "forking", "cloning", "analyzing", "modifying",
               "committing", "creating_pr", "complete", "ret", "done">>
Position(pc) == CHOOSE k \in 1..Len(Positions) : Positions[k] = pc

\* a version-control stage is left by the step that makes its call and is not
\* entered again: the call is made once, its failure ends the run
VersionControlOnce ==
    \A n \in Ids :
        (run[n].pc \in {"forking", "cloning", "committing", "creating_pr"}
            /\ run'[n] # run[n]) =>
        Position(run'[n].pc) > Position(run[n].pc)

ProgressRecord(tbl, n) == GetItem(tbl, Uuid(n))

\* C27: once Completed, Rejected or Error has been written for a request,
\* no step writes to its Progress Record again: the record and the sequence of
\* writes stay as they are, also through the collaborator grant and the
\* return of the run.
TerminalWrittenOnce ==
    [][\A n \in Ids :
          (hist[n] # <<>> /\ Last(hist[n]) \in Terminal) =>
              /\ hist'[n] = hist[n]
              /\ ProgressRecord(table', n) = ProgressRecord(table, n)]_vars

\* a run with a collaborator to grant has written Completed and has returned,
\* and one that was rejected has returned as well
TerminalWrittenOnceWitness ==
    \E n \in Ids :
        /\ run[n].pc = "done"
        /\ hist[n] # <<>>
        /\ Last(hist[n]) = "completed"
        /\ "AddCollaborator" \in calls[n]

\* ------------------------------------------------------------ the step number
\* C28: the step number stored in the Progress Record of a request never
\* decreases from one write to the next, the write of the terminal Rejected or
\* Error record included.
StoredStepNeverDecreases ==
    [][\A n \in Ids :
          \A old \in ProgressRecord(table, n), new \in ProgressRecord(table', n) :
              new.step >= old.step]_vars

\* ------------------------------------------------- the moment of re-admission
\* the client addresses with stored rate-limit records
Addresses == { table[k].ipAddress : k \in IpAddressIndex(table) }

\* the oldest record of the address that a check at instant t counts
OldestInWindow(ipAddress, t) ==
    Min({ table[k].timestamp : k \in QueryByIp(table, ipAddress, t - HourInSeconds) })

\* the instants up to the bound at which the answer of a check can change
Turning(ipAddress, bound) ==
    { t \in {now, bound - 1}
            \cup { table[k].timestamp + HourInSeconds : k \in IpAddressIndex(table) }
            \cup { table[k].timestamp + HourInSeconds + 1 : k \in IpAddressIndex(table) } :
        now <= t /\ t < bound }

\* C29: when a check denies a request, nextAvailableAt is the timestamp of
\* the oldest in-window record of the address plus 3600 seconds, a check at
\* exactly nextAvailableAt (no record written in between) is allowed, and
\* every check before it is denied.
NextAvailableIsEarliestAdmission ==
    \A ip \in Addresses :
        LET rl == CheckRateLimit(table, ip, now, TRUE)
        IN  ~rl.allowed =>
              /\ rl.next = OldestInWindow(ip, now) + HourInSeconds
              /\ CheckRateLimit(table, ip, rl.next, TRUE).allowed
              /\ \A t \in Turning(ip, rl.next) : ~CheckRateLimit(table, ip, t, TRUE).allowed

\* ------------------------------------------------- one record per acceptance
\* the rate-limit records stored for a client address
RecordsOf(ipAddress) == { k \in IpAddressIndex(table) : table[k].ipAddress = ipAddress }

\* the requests of a client address that were answered 202
AcceptedOf(ipAddress) ==
    CopiesOf(accepted, { e \in BagToSet(accepted) : e[1] = ipAddress })

\* C30: with a working store, once the synchronous invocations have
\* answered, the store holds one Rate-Limit Record per accepted request: for
\* every client address as many records as requests answered 202, and a
\* stored record is never changed or removed by a later step.
OneRecordPerAcceptedRequest ==
    /\ [](Quiet => \A e \in rlWrites \cup BagToSet(accepted) :
                      Cardinality(RecordsOf(e[1])) = AcceptedOf(e[1]))
    /\ [][\A k \in IpAddressIndex(table) :
              k \in DOMAIN table' /\ table'[k] = table[k]]_vars

\* ------------------------------------------------------- two kinds of record
\* the keys the tracker can write, and the two kinds of stored item
TrackerKeys == { Uuid(n) : n \in Ids }
IsProgressRecord(item) == "status" \in DOMAIN item /\ "ipAddress" \notin DOMAIN item
IsRateLimitRecord(item) == "ipAddress" \in DOMAIN item /\ "status" \notin DOMAIN item

\* C31: Rate-Limit Records and Progress Records never share a key: every
\* key of a minted identifier holds a Progress Record that the rate-limit
\* query does not see, every rate-limit write is stored under a key that is no
\* tracker key, a tracker write leaves the Rate-Limit Records as they are and
\* a rate-limit write leaves the Progress Records as they are.
RecordKeysNeverCollide ==
    /\ [](/\ \A k \in DOMAIN table \cap TrackerKeys :
               IsProgressRecord(table[k]) /\ k \notin IpAddressIndex(table)
          /\ \A w \in rlWrites :
               /\ RateLimitKey(w[1], w[2]) \notin TrackerKeys
               /\ RateLimitKey(w[1], w[2]) \in IpAddressIndex(table)
               /\ IsRateLimitRecord(table[RateLimitKey(w[1], w[2])]))
    /\ [][\A k \in DOMAIN table :
            /\ (hist' # hist /\ IsRateLimitRecord(table[k])) =>
                   (k \in DOMAIN table' /\ table'[k] = table[k])
            /\ (rlWrites' # rlWrites /\ IsProgressRecord(table[k])) =>
                   (k \in DOMAIN table' /\ table'[k] = table[k])]_vars

\* a request was recorded and its run has written a terminal Progress Record
\* into the same table
RecordKeysWitness ==
    \E n \in Ids :
        /\ run[n].pc = "done"
        /\ Uuid(n) \in DOMAIN table
        /\ table[Uuid(n)].status \in Terminal
        /\ IpAddressIndex(table) # {}

\* ------------------------------------------------------------ last write wins
\* Tracker.Get of an identifier that is stored: the item, unmarshalled; an
\* attribute left out by omitempty reads as the empty string
Get(tbl, n) == ProgressRecord(tbl, n)

\* what a tracker write for identifier n has left for Get: the record of this
\* write and nothing else if the PutItem succeeded, the record as it was if not
WriteLeaves(n) ==
    IF lastOk'[n]
    THEN \E item \in Get(table', n) :
           /\ Get(table', n) = {item}
           /\ item.requestId = Uuid(n)
           /\ item.status = Last(hist'[n])
           /\ item.timestamp = now
           /\ item.expiresAt = now + 48 * 3600
           /\ item.prUrl # "" <=> item.status = "completed"
    ELSE Get(table', n) = Get(table, n)

\* C32 as stated: every tracker write replaces the record: Get returns the
\* fields of the last successful write, the pull-request URL present exactly
\* after complete(), the error detail present exactly after reject() or
\* error(), the expiry 48 hours after the write.
WriteReplacesRecord ==
    [][\A n \in Ids :
          hist'[n] # hist[n] =>
              /\ WriteLeaves(n)
              /\ lastOk'[n] =>
                     \A item \in Get(table', n) :
                         item.errorDetails # "" <=> item.status \in {"rejected", "error"}]_vars

\* C32: every tracker write replaces the record: Get returns the fields of
\* the last successful write, the pull-request URL present exactly after
\* complete(), the error detail present exactly after error() and after a
\* reject() whose reason is not empty and absent after every other write, the
\* expiry 48 hours after the write.
WriteReplacesRecordDetailGiven ==
    [][\A n \in Ids :
          hist'[n] # hist[n] =>
              /\ WriteLeaves(n)
              /\ lastOk'[n] =>
                     \A item \in Get(table', n) :
                         /\ item.status = "error" => item.errorDetails # ""
                         /\ item.status = "rejected" =>
                                item.errorDetails = run'[n].verdict.reason
                         /\ item.status \notin {"rejected", "error"} =>
                                item.errorDetails = ""]_vars

\* a record written several times holds the Completed write alone
WriteReplacesRecordWitness ==
    \E n \in Ids :
        /\ Len(hist[n]) >= 9
        /\ lastOk[n]
        /\ \E item \in Get(table, n) :
             item.status = "completed" /\ item.prUrl # "" /\ item.errorDetails = ""

\* ------------------------------------------------------ the validator's reply
\* the reply is a verdict that says in so many words that the prompt is not
\* actionable
ExplicitlyNotActionable(reply) ==
    reply.ok /\ reply.json /\ reply.hasIsValid /\ ~reply.isValid

\* the call failed or its content could not be parsed
ValidatorFailed(reply) == ~reply.ok \/ ~reply.json

\* the replies that can have produced the verdict a run holds
RepliesFor(v) == { reply \in ValidationReplies : ParseValidation(reply) = v }

\* C33: a run whose validator call failed (no answer, or an answer that
\* cannot be parsed) is neither rejected nor failed by the validation step and
\* goes on to Forking with nothing written, as if the prompt had been judged
\* actionable; a run is rejected only on a reply that explicitly says not
\* actionable.
ValidatorFailureContinues ==
    [][\A n \in Ids :
          (run[n].pc = "validate" /\ run'[n] # run[n]) =>
              /\ (\E reply \in RepliesFor(run'[n].verdict) : ValidatorFailed(reply)) =>
                     /\ run'[n].pc = "forking"
                     /\ run'[n].err = NoErr
                     /\ hist'[n] = hist[n]
              /\ run'[n].pc # "forking" =>
                     \A reply \in RepliesFor(run'[n].verdict) : ExplicitlyNotActionable(reply)]_vars

\* ------------------------------------------------------- the File Change Set
\* C34: the generate stage ends with a File Change Set whose keys are among
\* the files the plan named; a planned file that cannot be read or generated
\* is left out and the run goes on; the run goes on to commit only with a
\* non-empty set, and with an empty set it fails with nothing written,
\* committed or pushed, and Error is written on return.
ChangeSetWithinPlan ==
    /\ [](\A n \in Ids :
            /\ run[n].modified \subseteq run[n].modify
            /\ run[n].pc \in {"committing", "creating_pr", "complete"} => run[n].modified # {}
            /\ (run[n].pc = "ret" /\ run[n].err.kind = "no files could be modified") =>
                   /\ run[n].modified = {}
                   /\ ~run[n].dirty
                   /\ "git push" \notin calls[n]
                   /\ "CreatePullRequest" \notin calls[n]
                   /\ "committing" \notin { hist[n][k] : k \in 1..Len(hist[n]) })
    /\ [][\A n \in Ids :
            /\ (run[n].pc = "modifying" /\ run'[n] # run[n] /\ run'[n].modified = {}) =>
                   (run'[n].pc = "ret" /\ run'[n].err # NoErr)
            /\ (run[n].pc = "ret" /\ run[n].err.kind = "no files could be modified"
                                  /\ run'[n] # run[n]) =>
                   (Last(hist'[n]) = "error" /\ Len(hist'[n]) = Len(hist[n]) + 1)]_vars

\* a run left out a planned file and went on to commit the others
ChangeSetWithinPlanWitness ==
    \E n \in Ids :
        /\ run[n].pc = "committing"
        /\ run[n].modified # {}
        /\ run[n].modified # run[n].modify

\* ------------------------------------------------ exactly one line terminator
\* the line terminators a body ends with
RECURSIVE TrailingTerminators(_)
TrailingTerminators(content) ==
    IF HasSuffix(content)
    THEN 1 + TrailingTerminators(SubSeq(content, 1, Len(content) - 1))
    ELSE 0

\* C35: every body the write stage has persisted ends with exactly one line
\* terminator, whatever the generated body was: empty, or ending with several
\* terminators.
WrittenEndsWithOneTerminator ==
    file.pc \in {"written", "read", "rewritten"} => TrailingTerminators(file.written) = 1

\* ------------------------------------------------- concurrent invocations
\* One client address sends well-formed requests that API Gateway hands to
\* up to MaxConc invocations of Handle at the same time; the store and the
\* platform answer.
ConcurrentIntake(i) ==
    /\ HandleIntake(i, {GoodBody("")}, MaxRLReq)
    /\ sync'[i].ip # "unknown"

\* a second passes between invocations, or while the invocations under way
\* have passed the check and have not yet recorded
BetweenCheckAndRecord ==
    /\ \E j \in Slots : sync[j].pc = "record"
    /\ \A j \in Slots : sync[j].pc \in {"record", "idle", "done"}
ConcurrentTick == (Quiet \/ BetweenCheckAndRecord) /\ Tick(MaxRLTicks, WindowEnds)

InitConc ==
    /\ InitSlots(0, MaxConc)
    /\ file = NoFile
    /\ api = NoCall

NextConc ==
    \/ \E i \in Slots : ConcurrentIntake(i)
    \/ \E i \in Slots : HandleCheckRateLimit(i, {TRUE})
    \/ \E i \in Slots : HandleRecordRequest(i, {TRUE})
    \/ \E i \in Slots : HandleInitialStatus(i, {TRUE})
    \/ \E i \in Slots : HandleInvokeAsync(i, {"ok"})
    \/ ConcurrentTick

SpecConc == InitConc /\ [][NextConc]_vars

\* the requests of the address accepted in the 3600 seconds from t on
AcceptedFrom(ipAddress, t) ==
    CopiesOf(accepted, { e \in BagToSet(accepted) :
                           e[1] = ipAddress /\ t <= e[2] /\ e[2] < t + 3600 })

\* C36: however concurrent invocations for one client address interleave,
\* at most 5 requests whose acceptance times lie within one window of 3600
\* seconds are answered 202.
ConcurrentAcceptsWithinLimit ==
    \A e \in BagToSet(accepted) : AcceptedFrom(e[1], e[2]) <= 5

\* --------------------------------------------------- no pull request unpushed
\* C37: a create-pull-request call is only issued by a run that has
\* committed and pushed its branch; a run whose commit stage found a clean
\* tree issues none, whether the listing of the existing pull requests
\* returned some, returned none or failed.
CreateOnlyAfterPush ==
    /\ [](\A n \in Ids :
            /\ "CreatePullRequest" \in calls[n] => "git push" \in calls[n]
            /\ run[n].pc = "creating_pr" =>
                   (run[n].hasChanges /\ BranchName(run[n].branch) \in github.branches))
    /\ [][\A n \in Ids :
            (run[n].pc = "committing" /\ ~run[n].dirty /\ run'[n] # run[n]) =>
                run'[n].pc = "ret"]_vars


\* C38: an invocation that minted an identifier and wrote the Pending record
\* but answers something other than 202 leaves the Progress Record of that
\* identifier in Error, never in Pending; a record that stays Pending once its
\* invocation has returned has a dispatched run.
FailedDispatchLeavesError ==
    \A i \in Slots :
        (sync[i].pc = "done" /\ sync[i].requestID # 0 /\ sync[i].resp.code # 202) =>
            /\ \A item \in ProgressRecord(table, sync[i].requestID) :
                   item.status = "error"
            /\ dispatched[sync[i].requestID] = 0

====
